---- MODULE Spec2Model ----
(***************************************************************************)
(* A model of nice_bids/dataset.py: the NICEBIDS catalog (subset pattern,  *)
(* discovery and parallel load, metadata consolidation, queries, add).     *)
(*                                                                         *)
(* Python strings are TLA+ strings; Python None is the string "None" in a  *)
(* position that otherwise holds a string.  The variable assigned holds    *)
(* the attributes the object has: __init__ assigns files, derivative_files *)
(* and metadata only in the methods it calls.                              *)
(***************************************************************************)
EXTENDS Integers, Sequences, FiniteSets

VARIABLES
    pc,                 \* position of the calling thread
    caller,             \* the call the running load batch belongs to
    rjust,              \* self.rjust
    n_jobs,             \* self.n_jobs
    args,               \* the arguments of the constructor call
    subset,             \* self.subset
    subset_regex_pattern, \* self.subset_regex_pattern
    participants,       \* self.participants (in memory)
    files,              \* self.files
    derivative_files,   \* self.derivative_files
    metadata,           \* self.metadata
    assigned,           \* the attributes among files, derivative_files, metadata
                        \* that have been assigned on the object
    disk,               \* the dataset directory
    tasks,              \* the iterable handed to process_map
    status,             \* per task: "pending", "running", "ok", "fail"
    finished,           \* the task indexes in the order the workers finished
    lastOp,             \* the last public call and its arguments
    result,             \* what the last call returned
    error               \* the exception the last call raised, or "none"

vars == <<pc, caller, rjust, n_jobs, args, subset, subset_regex_pattern,
          participants, files, derivative_files, metadata, assigned, disk, tasks,
          status, finished, lastOp, result, error>>

-----------------------------------------------------------------------------
(* Bounds of the model *)

MaxFiles == 2        \* raw recordings the glob of _read_files finds
MaxDerivs == 1       \* derivative files the glob of _read_derivatives finds
MaxJobs == 2         \* largest worker pool
MaxRows == 4         \* longest raw-entry list handed to _create_metadata alone
MaxWidth == 3        \* largest zero-pad width
MaxAcq == 11         \* largest acquisition number

-----------------------------------------------------------------------------
(* Strings *)

Char(s, i) == SubSeq(s, i, i)

\* t in s
Contains(s, t) ==
    \E i \in 1..(Len(s) - Len(t) + 1) : SubSeq(s, i, i + Len(t) - 1) = t

\* s.endswith(t)
EndsWith(s, t) ==
    Len(t) <= Len(s) /\ SubSeq(s, Len(s) - Len(t) + 1, Len(s)) = t

Digit(d) == Char("0123456789", d + 1)

\* str(x) of an int
RECURSIVE str(_)
str(x) ==
    IF x < 0 THEN "-" \o str(-x)
    ELSE IF x < 10 THEN Digit(x)
    ELSE str(x \div 10) \o Digit(x % 10)

\* s.rjust(width, '0')
RECURSIVE rjust0(_, _)
rjust0(s, width) == IF Len(s) >= width THEN s ELSE rjust0("0" \o s, width)

int2str(x, width) == rjust0(str(x), width)

\* sep.join(list)
RECURSIVE join(_, _)
join(sep, list) ==
    IF Len(list) = 0 THEN ""
    ELSE IF Len(list) = 1 THEN list[1]
    ELSE list[1] \o sep \o join(sep, Tail(list))

\* os.path.join(a, b) of a relative b
path_join(a, b) == a \o "/" \o b

-----------------------------------------------------------------------------
(* re.match for the syntax the subset pattern uses: literal characters,    *)
(* '.', a following '+', unnested groups '(a|b)' and '$'.  Ends(p, i, s, J) *)
(* is the set of positions of s the pattern p[i..] can end at when started *)
(* at one of the positions J.                                              *)

\* the index of the first c in p at or after i (Len(p) + 1 if none)
RECURSIVE IndexOf(_, _, _)
IndexOf(p, c, i) ==
    IF i > Len(p) \/ Char(p, i) = c THEN i ELSE IndexOf(p, c, i + 1)

\* the alternatives of a group body: p split on '|'
RECURSIVE Alternatives(_)
Alternatives(p) ==
    LET bar == IndexOf(p, "|", 1)
    IN  IF bar > Len(p) THEN {p}
        ELSE {SubSeq(p, 1, bar - 1)} \cup Alternatives(SubSeq(p, bar + 1, Len(p)))

\* one character of s consumed by the atom a
StepAtom(a, s, J) ==
    {j + 1 : j \in {k \in J : k <= Len(s) /\ (a = "." \/ Char(s, k) = a)}}

\* a+ : one or more (.+ ends anywhere after a start)
RECURSIVE PlusAtom(_, _, _)
PlusAtom(a, s, J) ==
    IF a = "." THEN {k \in 2..(Len(s) + 1) : \E j \in J : j < k}
    ELSE LET one == StepAtom(a, s, J)
         IN  IF one = {} THEN {} ELSE one \cup PlusAtom(a, s, one)

Special(c) == c \in {"(", ")", "|", ".", "+", "$"}

\* the end of the run of literal characters of p that starts at i: the first
\* index at or after i that holds a special character or is followed by '+'
RECURSIVE LiteralEnd(_, _)
LiteralEnd(p, i) ==
    IF i > Len(p) \/ Special(Char(p, i)) \/ (i < Len(p) /\ Char(p, i + 1) = "+")
    THEN i
    ELSE LiteralEnd(p, i + 1)

\* the literal text consumed at once
StepLiteral(text, s, J) ==
    {j + Len(text) :
        j \in {k \in J : /\ k + Len(text) - 1 <= Len(s)
                         /\ SubSeq(s, k, k + Len(text) - 1) = text}}

RECURSIVE Ends(_, _, _, _)
Ends(p, i, s, J) ==
    IF i > Len(p) \/ J = {} THEN J
    ELSE IF Char(p, i) = "(" THEN
        LET close == IndexOf(p, ")", i)
            alts == Alternatives(SubSeq(p, i + 1, close - 1))
        IN  Ends(p, close + 1, s, UNION {Ends(a, 1, s, J) : a \in alts})
    ELSE IF Char(p, i) = "$" THEN
        Ends(p, i + 1, s, {j \in J : j = Len(s) + 1})
    ELSE IF i < Len(p) /\ Char(p, i + 1) = "+" THEN
        Ends(p, i + 2, s, PlusAtom(Char(p, i), s, J))
    ELSE IF LiteralEnd(p, i) > i THEN
        Ends(p, LiteralEnd(p, i), s,
             StepLiteral(SubSeq(p, i, LiteralEnd(p, i) - 1), s, J))
    ELSE
        Ends(p, i + 1, s, StepAtom(Char(p, i), s, J))

\* re.match(pattern, s) is not None
re_match(pattern, s) == Ends(pattern, 1, s, {1}) # {}

-----------------------------------------------------------------------------
(* NICEBIDS.__init__, the subset                                           *)
(* A filter argument is [kind, s, l, n]: kind "none" (omitted), "str"      *)
(* (the string s), "list" (the list l of strings or of ints) or "int" (n). *)

NoneArg == [kind |-> "none", s |-> "", l |-> <<>>, n |-> 0]
StrArg(x) == [kind |-> "str", s |-> x, l |-> <<>>, n |-> 0]
ListArg(x) == [kind |-> "list", s |-> "", l |-> x, n |-> 0]
IntArg(x) == [kind |-> "int", s |-> "", l |-> <<>>, n |-> x]

\* x if x is not None else ['.+'], then [v] if not isinstance(v, list) else v
StrSubset(a) ==
    IF a.kind = "none" THEN <<".+">>
    ELSE IF a.kind = "list" THEN a.l
    ELSE <<a.s>>

\* the acq entry of self.subset
AcqSubset(a, width) ==
    IF a.kind = "int" THEN <<int2str(a.n, width)>>
    ELSE IF a.kind = "list" THEN [i \in DOMAIN a.l |-> int2str(a.l[i], width)]
    ELSE <<".+">>

BuildSubset(a, width) ==
    [sub |-> StrSubset(a.sub), ses |-> StrSubset(a.ses),
     task |-> StrSubset(a.task), acq |-> AcqSubset(a.acq, width)]

Group(list) == "(" \o join("|", list) \o ")"

BuildPattern(ss) ==
    LET subs == Group(ss.sub)
        sess == Group(ss.ses)
        tsks == Group(ss.task)
        acqs == Group(ss.acq)
    IN  path_join(path_join(path_join("sub-" \o subs, "ses-" \o sess), "eeg"),
            "sub-" \o subs \o "_ses-" \o sess \o "_task-" \o tsks
            \o "_acq-" \o acqs \o "_(.+).(.+)$")

-----------------------------------------------------------------------------
(* Recording entries (nice_bids.paths).  A file on disk is a record        *)
(* [sub, ses, task, acq, run, suffix, ext, setup, derivative]: the tokens  *)
(* of its name (run "" when the name has no run token), the setup of its   *)
(* sidecar, and the pipeline directory it lies under ("None" for a raw     *)
(* recording).                                                             *)

Root == "/d"

\* the name tail: sub-<id>_ses-<id>_task-<id>_acq-<id>[_run-<NN>]_<suffix>.<ext>
FileName(f) ==
    "sub-" \o f.sub \o "_ses-" \o f.ses \o "_task-" \o f.task
    \o "_acq-" \o f.acq
    \o (IF f.run = "" THEN "" ELSE "_run-" \o f.run)
    \o "_" \o f.suffix \o "." \o f.ext

FolderOf(base, f) ==
    path_join(path_join(path_join(base, "sub-" \o f.sub), "ses-" \o f.ses), "eeg")

derivative_root == path_join(Root, "derivatives")

PathOf(f) ==
    IF f.derivative = "None" THEN path_join(FolderOf(Root, f), FileName(f))
    ELSE path_join(FolderOf(path_join(derivative_root, f.derivative), f),
                   FileName(f))

\* int(token) of a token of digits
RECURSIVE ParseInt(_)
ParseInt(t) ==
    IF Len(t) = 0 THEN 0
    ELSE 10 * ParseInt(SubSeq(t, 1, Len(t) - 1))
         + (CHOOSE d \in 0..9 : Digit(d) = Char(t, Len(t)))

\* a cell or an argument holding a Python int or a Python str
IntCell(n) == [isint |-> TRUE, n |-> n, s |-> ""]
StrCell(x) == [isint |-> FALSE, n |-> 0, s |-> x]
NoneCell == [isint |-> FALSE, n |-> 0, s |-> "None"]

\* x == y of Python: an int never equals a str
PyEq(x, y) == x.isint = y.isint /\ x.n = y.n /\ x.s = y.s

\* the metadata an entry carries: the participant's row, the fields of the
\* path (acq and run as ints, run 1 when the name has no run token) and the
\* sidecar
EntryMetadata(f, prow) ==
    [participant_id |-> "sub-" \o f.sub, ses |-> f.ses, task |-> f.task,
     acq |-> IntCell(ParseInt(f.acq)),
     run |-> IF f.run = "" THEN 1 ELSE ParseInt(f.run),
     setup |-> f.setup, pinfo |-> prow]

\* EEGPath(root=filepath, metadata=metadata); data is <<file, participant row>>
load_path(data) ==
    [path |-> PathOf(data[1]), derivative |-> "None",
     metadata |-> EntryMetadata(data[1], data[2])]

\* DerivativePath(root=filepath, metadata=metadata)
load_derivative(data) ==
    [path |-> PathOf(data[1]), derivative |-> data[1].derivative,
     metadata |-> EntryMetadata(data[1], data[2])]

\* BIDSPath.correct_filepath(path, mode): the path has the layout of a recording
correct_filepath(path, mode) ==
    re_match(
        IF mode = "derivative"
        THEN "(.+)/derivatives/(.+)/sub-(.+)/ses-(.+)/eeg/sub-(.+)_ses-(.+)_task-(.+)_acq-(.+)_(.+).(.+)$"
        ELSE "(.+)/sub-(.+)/ses-(.+)/eeg/sub-(.+)_ses-(.+)_task-(.+)_acq-(.+)_eeg.(.+)$",
        path)

AlNum == "abcdefghijklmnopqrstuvwxyzABCDEFGHIJKLMNOPQRSTUVWXYZ0123456789"

\* re.search('sub-([a-zA-Z0-9]+)/', file).group(1): leftmost match, "" if none
SubjectEnd(file, i) ==
    \* the positions j with file[i..j-1] alphanumeric and non-empty, file[j] = '/'
    {j \in (i + 1)..Len(file) :
        /\ Char(file, j) = "/"
        /\ \A k \in i..(j - 1) : Contains(AlNum, Char(file, k))}

SubjectOf(file) ==
    LET starts == {i \in 1..(Len(file) - 3) :
                     /\ SubSeq(file, i, i + 3) = "sub-"
                     /\ SubjectEnd(file, i + 4) # {}}
    IN  IF starts = {} THEN ""
        ELSE LET i == CHOOSE m \in starts : \A o \in starts : m <= o
                 j == CHOOSE m \in SubjectEnd(file, i + 4) : TRUE
             IN  SubSeq(file, i + 4, j - 1)

-----------------------------------------------------------------------------
(* NICEBIDS._create_metadata *)

grouping_key(row) == <<row.participant_id, row.ses, row.task, row.acq>>

\* the row with its run left out
NonRun(row) == [row EXCEPT !.run = 0]

\* the indexes of the table's rows that belong to the group of key
GroupRows(table, key) == {i \in DOMAIN table : grouping_key(table[i]) = key}

\* group.duplicated(subset=<all but run>, keep=False).sum()
t_dup(table, group) ==
    Cardinality({i \in group :
        \E j \in group : j # i /\ NonRun(table[j]) = NonRun(table[i])})

\* the checks of the loop over the groups: TRUE when some group raises
GroupRaises(table, group) ==
    LET first == CHOOSE i \in group : \A j \in group : i <= j
    IN  \/ Cardinality(group) = 1 /\ table[first].run # 1
        \/ t_dup(table, group) # Cardinality(group) /\ Cardinality(group) > 1

\* drop_duplicates(subset=grouping_cols, keep='first', ignore_index=True)
RECURSIVE drop_duplicates(_, _)
drop_duplicates(table, seen) ==
    IF Len(table) = 0 THEN <<>>
    ELSE LET key == grouping_key(Head(table))
         IN  IF key \in seen THEN drop_duplicates(Tail(table), seen)
             ELSE <<Head(table)>> \o drop_duplicates(Tail(table), seen \cup {key})

\* the outcome of _create_metadata on self.files: the value self.metadata is
\* left with and the exception raised
_create_metadata(fs) ==
    IF Len(fs) = 0 THEN [metadata |-> <<>>, error |-> "none"]
    ELSE LET table == [i \in DOMAIN fs |-> fs[i].metadata]
             keys == {grouping_key(table[i]) : i \in DOMAIN table}
         IN  IF \E key \in keys : GroupRaises(table, GroupRows(table, key))
             THEN [metadata |-> table, error |-> "ValueError"]
             ELSE [metadata |-> drop_duplicates(table, {}), error |-> "none"]

-----------------------------------------------------------------------------
(* Queries.  A query is [sub, task, ext, ses, suffix] (strings, "None" when *)
(* not given) with acq and run cells (NoneCell when not given).             *)

\* str(x).rjust(self.rjust, '0') of an int or a str, None kept
Padded(x, width) ==
    IF x = NoneCell THEN "None"
    ELSE IF x.isint THEN int2str(x.n, width)
    ELSE rjust0(x.s, width)

\* query_filter without its test of the extension
query_filter_no_ext(file, sub, task, ext, ses, acq, run, suffix, derivative) ==
    /\ \A kv \in {<<"sub", sub>>, <<"task", task>>, <<"ses", ses>>,
                   <<"acq", acq>>, <<"run", run>>} :
          kv[2] = "None" \/ Contains(file.path, kv[1] \o "-" \o kv[2])
    /\ suffix = "None" \/ Contains(file.path, "_" \o suffix \o ".")
    /\ file.derivative = derivative

query_filter(file, sub, task, ext, ses, acq, run, suffix, derivative) ==
    LET zipped_fields == <<<<"sub", sub>>, <<"task", task>>, <<"ses", ses>>,
                           <<"acq", acq>>, <<"run", run>>>>
        correct_fields ==
            \A i \in DOMAIN zipped_fields :
                \/ zipped_fields[i][2] = "None"
                \/ Contains(file.path,
                            zipped_fields[i][1] \o "-" \o zipped_fields[i][2])
        correct_suffix == suffix = "None" \/ Contains(file.path, "_" \o suffix \o ".")
        correct_ext == ext = "None" \/ EndsWith(file.path, "." \o ext)
        correct_derivative == file.derivative = derivative
    IN  correct_fields /\ correct_suffix /\ correct_ext /\ correct_derivative

Filter(list, q, width, derivative) ==
    SelectSeq(list, LAMBDA file :
        query_filter(file, q.sub, q.task, q.ext, q.ses,
                     Padded(q.acq, width), Padded(q.run, width),
                     q.suffix, derivative))

\* NICEBIDS.get
get(fs, q, width) == Filter(fs, q, width, "None")

\* NICEBIDS.get_derivatives
get_derivatives(dfs, derivative, q, width) == Filter(dfs, q, width, derivative)

\* NICEBIDS.to_df: res[res[field_name] == val] for each given field
to_df(table, q) ==
    SelectSeq(table, LAMBDA row :
        /\ q.sub = "None" \/ row.participant_id = "sub-" \o q.sub
        /\ q.task = "None" \/ row.task = q.task
        /\ q.ses = "None" \/ row.ses = q.ses
        /\ q.acq = NoneCell \/ PyEq(row.acq, q.acq)
        /\ q.run = NoneCell \/ PyEq(IntCell(row.run), q.run))

-----------------------------------------------------------------------------
(* Discovery: the part of _read_participants, _read_files and              *)
(* _read_derivatives that runs before the loads are handed to the pool.    *)

SeqRange(list) == {list[i] : i \in DOMAIN list}

\* pd.read_csv of participants.tsv, then the rows of the selected subjects
_read_participants(tsv, ss) ==
    IF ss.sub # <<".+">>
    THEN LET subs == {"sub-" \o sub : sub \in SeqRange(ss.sub)}
         IN  [id \in DOMAIN tsv \cap subs |-> tsv[id]]
    ELSE tsv

\* (file, self.participants.loc[f'sub-{sub}'].to_dict()) for each file: the
\* tasks, or KeyError when a subject has no row
WithParticipant(found, parts) ==
    IF \E i \in DOMAIN found : ("sub-" \o SubjectOf(PathOf(found[i]))) \notin DOMAIN parts
    THEN [error |-> "KeyError", tasks |-> <<>>]
    ELSE [error |-> "none",
          tasks |-> [i \in DOMAIN found |->
                        <<found[i], parts["sub-" \o SubjectOf(PathOf(found[i]))]>>]]

\* lines 113-134: globbed is what glob returns, in its order
ReadFilesTasks(globbed, regex, parts) ==
    LET correct == SelectSeq(globbed, LAMBDA f : correct_filepath(PathOf(f), "raw"))
        pattern == path_join(Root, regex)
        found == SelectSeq(correct, LAMBDA f : re_match(pattern, PathOf(f)))
    IN  WithParticipant(found, parts)

\* lines 153-187
ReadDerivativesTasks(globbed, regex, to_load, parts) ==
    LET derivatives == IF to_load.kind = "none" THEN "(.+)" ELSE Group(to_load.l)
        pattern == path_join(path_join(derivative_root, derivatives), regex)
        matched == SelectSeq(globbed, LAMBDA f : re_match(pattern, PathOf(f)))
        found == SelectSeq(matched,
                           LAMBDA f : correct_filepath(PathOf(f), "derivative"))
    IN  WithParticipant(found, parts)

-----------------------------------------------------------------------------
(* The worker pool of process_map(fn, iterable, max_workers, chunksize=1)  *)

Apply(fn, data) ==
    IF fn = "load_derivative" THEN load_derivative(data) ELSE load_path(data)

\* a process_map that collects the results as the workers finish
process_map_as_completed(fn, iterable, order) ==
    [k \in DOMAIN order |-> Apply(fn, iterable[order[k]])]

\* what process_map returns once every load has succeeded: the results in the
\* order of the iterable (Executor.map), whatever order they finished in
process_map(fn, iterable, order) ==
    [i \in DOMAIN iterable |-> Apply(fn, iterable[i])]

Running == {i \in DOMAIN status : status[i] = "running"}
Pending == {i \in DOMAIN status : status[i] = "pending"}
\* a join that waits for the loads to end and ignores how they ended
AllEnded == \A i \in DOMAIN status : status[i] \in {"ok", "fail"}

AllLoaded == \A i \in DOMAIN status : status[i] = "ok"

\* the iteration over the results, in order, meets a failed load
LoadRaises ==
    \E k \in DOMAIN status :
        status[k] = "fail" /\ \A i \in 1..(k - 1) : status[i] = "ok"

Loading == pc \in {"read_files", "read_derivatives"}

\* a free worker takes the next task of the queue
StartLoad ==
    /\ Loading
    /\ Cardinality(Running) < n_jobs
    /\ Pending # {}
    /\ LET i == CHOOSE m \in Pending : \A o \in Pending : m <= o
       IN  status' = [status EXCEPT ![i] = "running"]
    /\ UNCHANGED <<pc, caller, rjust, n_jobs, args, subset, subset_regex_pattern,
                   participants, files, derivative_files, metadata, assigned,
                   disk, tasks, finished, lastOp, result, error>>

\* a worker ends its load: it returns the entry, or the load raised
FinishLoad(i, ok) ==
    /\ Loading
    /\ i \in Running
    /\ status' = [status EXCEPT ![i] = IF ok THEN "ok" ELSE "fail"]
    /\ finished' = Append(finished, i)
    /\ UNCHANGED <<pc, caller, rjust, n_jobs, args, subset, subset_regex_pattern,
                   participants, files, derivative_files, metadata, assigned,
                   disk, tasks, lastOp, result, error>>

\* a batch is handed to the pool
Issue(batch, position) ==
    /\ tasks' = batch
    /\ status' = [i \in DOMAIN batch |-> "pending"]
    /\ finished' = <<>>
    /\ pc' = position

\* no batch is running: the pool is shut down when process_map returns or raises
NoBatch == tasks' = <<>> /\ status' = <<>> /\ finished' = <<>>

\* the call ends: construction that raised leaves no catalog, a method that
\* raised leaves the catalog to its caller
Return(who, err) ==
    /\ pc' = IF who = "init" /\ err # "none" THEN "failed" ELSE "idle"
    /\ error' = err

-----------------------------------------------------------------------------
(* Construction: __init__ up to the first batch.  participants.tsv is      *)
(* there; participants.json, which only fills participants_descriptions,   *)
(* is left out.                                                            *)

Construct(a, width, jobs) ==
    /\ pc = "new"
    /\ LET ss == BuildSubset(a, width)
           regex == BuildPattern(ss)
           parts == _read_participants(disk.tsv, ss)
           found == ReadFilesTasks(disk.raw, regex, parts)
       IN  /\ args' = a
           /\ rjust' = width
           /\ n_jobs' = jobs
           /\ subset' = ss
           /\ subset_regex_pattern' = regex
           /\ participants' = parts
           /\ IF found.error # "none"
              THEN NoBatch /\ Return("init", found.error)
              ELSE Issue(found.tasks, "read_files") /\ error' = "none"
    /\ caller' = "init"
    /\ lastOp' = [op |-> "__init__"]
    /\ result' = <<>>
    /\ UNCHANGED <<files, derivative_files, metadata, assigned, disk>>

\* _read_files: a load raised, and so do process_map, _read_files and __init__
ReadFilesRaise ==
    /\ pc = "read_files"
    /\ LoadRaises
    /\ Return(caller, "LoadError")
    /\ NoBatch
    /\ UNCHANGED <<caller, rjust, n_jobs, args, subset, subset_regex_pattern,
                   participants, files, derivative_files, metadata, assigned,
                   disk, lastOp, result>>

\* _read_files: process_map returns and self.files is assigned; then
\* _read_derivatives up to its batch, or past it to _create_metadata when
\* there is no derivatives folder
ReadFilesJoin ==
    /\ pc = "read_files"
    /\ AllLoaded
    /\ LET loaded == process_map("load_path", tasks, finished)
           found == ReadDerivativesTasks(disk.derivs, subset_regex_pattern,
                                         args.derivatives, participants)
           made == _create_metadata(loaded)
       IN  /\ files' = loaded
           /\ IF ~disk.hasDeriv
              THEN /\ metadata' = made.metadata
                   /\ assigned' = assigned \cup {"files", "metadata"}
                   /\ Return(caller, made.error)
                   /\ NoBatch
              ELSE IF found.error # "none"
              THEN /\ assigned' = assigned \cup {"files"}
                   /\ Return(caller, found.error)
                   /\ NoBatch
                   /\ UNCHANGED metadata
              ELSE /\ assigned' = assigned \cup {"files"}
                   /\ Issue(found.tasks, "read_derivatives")
                   /\ UNCHANGED <<metadata, error>>
    /\ UNCHANGED <<caller, rjust, n_jobs, args, subset, subset_regex_pattern,
                   participants, derivative_files, disk, lastOp, result>>

\* _read_derivatives: a load raised
ReadDerivativesRaise ==
    /\ pc = "read_derivatives"
    /\ LoadRaises
    /\ Return(caller, "LoadError")
    /\ NoBatch
    /\ UNCHANGED <<caller, rjust, n_jobs, args, subset, subset_regex_pattern,
                   participants, files, derivative_files, metadata, assigned,
                   disk, lastOp, result>>

\* _read_derivatives: self.derivative_files is assigned; then _create_metadata
\* (the next statement of __init__ and of reload_derivatives)
ReadDerivativesJoin ==
    /\ pc = "read_derivatives"
    /\ AllLoaded
    /\ LET made == _create_metadata(files)
       IN  /\ derivative_files' = process_map("load_derivative", tasks, finished)
           /\ metadata' = made.metadata
           /\ assigned' = assigned \cup {"derivative_files", "metadata"}
           /\ Return(caller, made.error)
    /\ NoBatch
    /\ UNCHANGED <<caller, rjust, n_jobs, args, subset, subset_regex_pattern,
                   participants, files, disk, lastOp, result>>

\* reload_derivatives(): _read_derivatives up to its batch, or all of it and
\* _create_metadata when there is no derivatives folder
reload_derivatives ==
    /\ pc = "idle"
    /\ LET found == ReadDerivativesTasks(disk.derivs, subset_regex_pattern,
                                         args.derivatives, participants)
           made == _create_metadata(files)
       IN  IF ~disk.hasDeriv
           THEN /\ metadata' = made.metadata
                /\ assigned' = assigned \cup {"metadata"}
                /\ Return("reload", made.error)
                /\ UNCHANGED <<tasks, status, finished>>
           ELSE IF found.error # "none"
           THEN /\ Return("reload", found.error)
                /\ UNCHANGED <<metadata, assigned, tasks, status, finished>>
           ELSE /\ Issue(found.tasks, "read_derivatives")
                /\ error' = "none"
                /\ UNCHANGED <<metadata, assigned>>
    /\ caller' = "reload"
    /\ lastOp' = [op |-> "reload_derivatives"]
    /\ result' = <<>>
    /\ UNCHANGED <<rjust, n_jobs, args, subset, subset_regex_pattern,
                   participants, files, derivative_files, disk>>

-----------------------------------------------------------------------------
(* The public calls on a constructed catalog *)

Call(op) ==
    /\ pc = "idle"
    /\ lastOp' = op
    /\ UNCHANGED <<pc, caller, rjust, n_jobs, args, subset, subset_regex_pattern,
                   files, derivative_files, metadata, assigned, tasks, status,
                   finished>>

Get(q) ==
    /\ Call([op |-> "get", q |-> q])
    /\ result' = get(files, q, rjust)
    /\ error' = "none"
    /\ UNCHANGED <<participants, disk>>

\* the table made of no files has the four grouping columns only: res['run']
\* raises KeyError
NoRunColumn(fs, q) == Len(fs) = 0 /\ q.run # NoneCell

ToDf(q) ==
    /\ Call([op |-> "to_df", q |-> q])
    /\ IF NoRunColumn(files, q)
       THEN result' = <<>> /\ error' = "KeyError"
       ELSE result' = to_df(metadata, q) /\ error' = "none"
    /\ UNCHANGED <<participants, disk>>

\* self.derivative_files is read: AttributeError when it was never assigned
GetDerivatives(derivative, q) ==
    /\ Call([op |-> "get_derivatives", q |-> q, derivative |-> derivative])
    /\ IF "derivative_files" \in assigned
       THEN /\ result' = get_derivatives(derivative_files, derivative, q, rjust)
            /\ error' = "none"
       ELSE /\ result' = <<>>
            /\ error' = "AttributeError"
    /\ UNCHANGED <<participants, disk>>

-----------------------------------------------------------------------------
(* NICEBIDS.add.  key is [sub, ses, task, acq]; fail names the step that   *)
(* raises ("none": no step does).  Of the dataset directory, disk.dirs are *)
(* the folders add made, disk.fs the files it left, disk.sidecars the      *)
(* sidecars it wrote, as <<path, setup>>, and disk.tsv participants.tsv.   *)

KeyQuery(key) ==
    [sub |-> key.sub, task |-> key.task, ext |-> "None", ses |-> key.ses,
     suffix |-> "None", acq |-> key.acq, run |-> NoneCell]

\* EEGPath(root, sub, ses, task, acq, ext): the recording add places
NewFile(key, width, ext) ==
    [sub |-> key.sub, ses |-> key.ses, task |-> key.task,
     acq |-> Padded(key.acq, width), run |-> "", suffix |-> "eeg", ext |-> ext,
     setup |-> "", derivative |-> "None"]

\* self.participants.loc[f'sub-{sub}', task] = True
SetTask(parts, id, task) ==
    [p \in DOMAIN parts \cup {id} |->
        IF p = id
        THEN (IF id \in DOMAIN parts THEN parts[id] ELSE {}) \cup {task}
        ELSE parts[p]]

Steps == <<"copy", "extract", "remove", "to_csv", "sidecar">>

\* the step of that name is reached and does not raise
Done(fail, step) ==
    \A i \in DOMAIN Steps :
        Steps[i] = fail => \E j \in 1..(i - 1) : Steps[j] = step

\* the step of that name is reached (it may raise)
Reached(fail, step) ==
    \A i \in DOMAIN Steps :
        Steps[i] = fail => \E j \in 1..i : Steps[j] = step

\* the disk and the participants add leaves, and the exception it raises
add(d, parts, fs, key, setup, width, fail) ==
    IF Len(get(fs, KeyQuery(key), width)) # 0
    THEN [disk |-> d, participants |-> parts, error |-> "ValueError"]
    ELSE
        LET zip == PathOf(NewFile(key, width, "zip"))
            folder == FolderOf(Root, NewFile(key, width, "zip"))
            member == PathOf(NewFile(key, width, "fif"))
            sidecar == PathOf(NewFile(key, width, "json"))
            marked == SetTask(parts, "sub-" \o key.sub, key.task)
            fs2 == IF Done(fail, "copy") THEN d.fs \cup {zip} ELSE d.fs
            fs3 == IF Done(fail, "extract") THEN fs2 \cup {member} ELSE fs2
            fs4 == IF Done(fail, "remove") THEN fs3 \ {zip} ELSE fs3
        IN  [disk |-> [d EXCEPT
                 !.dirs = d.dirs \cup {folder},
                 !.fs = fs4,
                 !.tsv = IF Done(fail, "to_csv") THEN marked ELSE d.tsv,
                 !.sidecars =
                     IF Done(fail, "sidecar")
                     THEN {x \in d.sidecars : x[1] # sidecar}
                          \cup {<<sidecar, setup>>}
                     ELSE d.sidecars],
             participants |-> IF Reached(fail, "to_csv") THEN marked ELSE parts,
             error |-> IF fail = "none" THEN "none" ELSE "OSError"]

Add(key, setup, fail) ==
    /\ Call([op |-> "add", key |-> key, setup |-> setup])
    /\ LET out == add(disk, participants, files, key, setup, rjust, fail)
       IN  /\ disk' = out.disk
           /\ participants' = out.participants
           /\ error' = out.error
    /\ result' = <<>>

-----------------------------------------------------------------------------
(* The inputs *)

File(sub, acq, run, ext, setup) ==
    [sub |-> sub, ses |-> "01", task |-> "A", acq |-> acq, run |-> run,
     suffix |-> "eeg", ext |-> ext, setup |-> setup, derivative |-> "None"]

RawFile(sub, run, ext, setup) == File(sub, "01", run, ext, setup)

DerivativeFile(derivative) ==
    [sub |-> "01", ses |-> "01", task |-> "A", acq |-> "01", run |-> "",
     suffix |-> "epo", ext |-> "fif", setup |-> "x", derivative |-> derivative]

RawUniverse ==
    {RawFile("01", "", "fif", "x"), RawFile("01", "02", "fif", "x"),
     RawFile("02", "", "fif", "x")}

DerivativeUniverse == {DerivativeFile(d) : d \in {"ica", "psd"}}

\* the lists a glob can return: no path twice
Globs(universe, n) ==
    {g \in UNION {[1..k -> universe] : k \in 0..n} :
        \A i, j \in DOMAIN g : i # j => PathOf(g[i]) # PathOf(g[j])}

\* the derivatives folder and what the glob finds under it
Derivatives ==
    {<<FALSE, <<>>>>} \cup {<<TRUE, g>> : g \in Globs(DerivativeUniverse, MaxDerivs)}

Tsv(ids) == [id \in ids |-> {}]

Disk(raw, tsv, derivatives) ==
    [raw |-> raw, hasDeriv |-> derivatives[1], derivs |-> derivatives[2],
     tsv |-> tsv, dirs |-> {}, fs |-> {}, sidecars |-> {}]

CtorArgs(sub, to_load) ==
    [sub |-> sub, ses |-> NoneArg, task |-> NoneArg, acq |-> NoneArg,
     derivatives |-> to_load]

SubsetArgs ==
    {[sub |-> sub, ses |-> NoneArg, task |-> task, acq |-> acq,
      derivatives |-> NoneArg] :
        sub \in {NoneArg, StrArg("01"), StrArg("01,02"),
                 ListArg(<<"01", "02">>), ListArg(<<"02">>)},
        task \in {NoneArg, StrArg("A")},
        acq \in {NoneArg, IntArg(1), IntArg(MaxAcq), ListArg(<<1, MaxAcq>>)}}

Q0 == [sub |-> "None", task |-> "None", ext |-> "None", ses |-> "None",
       suffix |-> "None", acq |-> NoneCell, run |-> NoneCell]

Queries ==
    {[Q0 EXCEPT !.sub = sub, !.run = run] :
        sub \in {"None", "01"}, run \in {NoneCell, IntCell(2)}}
    \cup {[Q0 EXCEPT !.acq = acq] : acq \in {IntCell(1), StrCell("01")}}
    \cup {[Q0 EXCEPT !.task = "A", !.ses = "01", !.suffix = "eeg", !.ext = "fif"],
          [Q0 EXCEPT !.ext = "set"]}

DerivativeQueries == {Q0, [Q0 EXCEPT !.sub = "02"]}

Keys == {[sub |-> "02", ses |-> "01", task |-> "A", acq |-> IntCell(1)]}

\* the pipelines write or remove their outputs between two calls
PipelinesRun ==
    /\ pc = "idle"
    /\ \E d \in Derivatives :
        /\ disk' = [disk EXCEPT !.hasDeriv = d[1], !.derivs = d[2]]
        /\ disk' # disk
    /\ UNCHANGED <<pc, caller, rjust, n_jobs, args, subset, subset_regex_pattern,
                   participants, files, derivative_files, metadata, assigned,
                   tasks, status, finished, lastOp, result, error>>

-----------------------------------------------------------------------------
(* The state before the constructor is called *)

New ==
    /\ pc = "new"
    /\ caller = "init"
    /\ rjust = 0
    /\ n_jobs = 0
    /\ args = CtorArgs(NoneArg, NoneArg)
    /\ subset = [sub |-> <<>>, ses |-> <<>>, task |-> <<>>, acq |-> <<>>]
    /\ subset_regex_pattern = ""
    /\ participants = <<>>
    /\ files = <<>>
    /\ derivative_files = <<>>
    /\ metadata = <<>>
    /\ assigned = {}
    /\ tasks = <<>>
    /\ status = <<>>
    /\ finished = <<>>
    /\ lastOp = [op |-> "none"]
    /\ result = <<>>
    /\ error = "none"

-----------------------------------------------------------------------------
(* Spec: construction and the derivatives, with the worker pool *)

Init ==
    /\ New
    /\ disk \in {Disk(raw, Tsv({"sub-01"}), d) :
                    raw \in Globs(RawUniverse, MaxFiles), d \in Derivatives}

Next ==
    \/ \E to_load \in {NoneArg, ListArg(<<"ica">>)}, jobs \in 1..MaxJobs :
          Construct(CtorArgs(NoneArg, to_load), 2, jobs)
    \/ StartLoad
    \/ \E i \in DOMAIN status, ok \in BOOLEAN : FinishLoad(i, ok)
    \/ ReadFilesRaise
    \/ ReadFilesJoin
    \/ ReadDerivativesRaise
    \/ ReadDerivativesJoin
    \/ reload_derivatives
    \/ \E d \in {"ica", "psd"}, q \in DerivativeQueries : GetDerivatives(d, q)
    \/ PipelinesRun

Spec == Init /\ [][Next]_vars

-----------------------------------------------------------------------------
(* SpecCalls: get, to_df and add on a catalog of a dataset without         *)
(* derivatives                                                             *)

InitCalls ==
    /\ New
    /\ disk \in {Disk(raw, Tsv({"sub-01", "sub-02"}), <<FALSE, <<>>>>) :
                    raw \in Globs(RawUniverse, MaxFiles)}

NextCalls ==
    \/ \E sub \in {NoneArg, StrArg("01")} : Construct(CtorArgs(sub, NoneArg), 2, 1)
    \/ StartLoad
    \/ \E i \in DOMAIN status, ok \in BOOLEAN : FinishLoad(i, ok)
    \/ ReadFilesRaise
    \/ ReadFilesJoin
    \/ \E q \in Queries : Get(q)
    \/ \E q \in Queries : ToDf(q)
    \/ \E key \in Keys, fail \in {"none"} \cup SeqRange(Steps) : Add(key, "cap", fail)

SpecCalls == InitCalls /\ [][NextCalls]_vars

-----------------------------------------------------------------------------
(* SpecSubset: construction with subset filters, over one dataset *)

SubsetDisk ==
    Disk(<<File("01", "01", "", "fif", "x"), File("02", "1", "", "fif", "x"),
           File("02", str(MaxAcq), "", "fif", "x")>>,
         Tsv({"sub-01", "sub-02"}), <<FALSE, <<>>>>)

InitSubset == New /\ disk = SubsetDisk

NextSubset ==
    \/ \E a \in SubsetArgs, width \in 1..MaxWidth : Construct(a, width, 1)
    \/ StartLoad
    \/ \E i \in DOMAIN status, ok \in BOOLEAN : FinishLoad(i, ok)
    \/ ReadFilesRaise
    \/ ReadFilesJoin

SpecSubset == InitSubset /\ [][NextSubset]_vars

-----------------------------------------------------------------------------
(* SpecMeta: _create_metadata on the raw-entry lists of up to MaxRows     *)
(* recordings                                                             *)

MetaUniverse ==
    {RawFile("01", run, ext, setup) :
        run \in {"", "02"}, ext \in {"fif", "set"}, setup \in {"x", "y"}}
    \cup {RawFile("02", run, "fif", "x") : run \in {"", "02"}}

InitMeta ==
    /\ pc = "read_files"
    /\ caller = "init"
    /\ rjust = 2
    /\ n_jobs = 1
    /\ args = CtorArgs(NoneArg, NoneArg)
    /\ subset = BuildSubset(args, rjust)
    /\ subset_regex_pattern = BuildPattern(subset)
    /\ participants = Tsv({"sub-01", "sub-02"})
    /\ disk \in {Disk(raw, participants, <<FALSE, <<>>>>) :
                    raw \in Globs(MetaUniverse, MaxRows)}
    /\ tasks = [i \in DOMAIN disk.raw |-> <<disk.raw[i], {}>>]
    /\ status = [i \in DOMAIN tasks |-> "ok"]
    /\ finished = [i \in DOMAIN tasks |-> i]
    /\ files = <<>>
    /\ derivative_files = <<>>
    /\ metadata = <<>>
    /\ assigned = {}
    /\ lastOp = [op |-> "__init__"]
    /\ result = <<>>
    /\ error = "none"

SpecMeta == InitMeta /\ [][ReadFilesJoin]_vars

-----------------------------------------------------------------------------
(* The claims *)

PathsOf(list) == [i \in DOMAIN list |-> list[i].path]

DiscoveredPaths(globbed) == [i \in DOMAIN globbed |-> PathOf(globbed[i])]

\* res is the elements of list at the indexes keep, in the order of list
Selected(res, list, keep) ==
    /\ Len(res) = Cardinality(keep)
    /\ \A i \in keep : res[Cardinality({j \in keep : j <= i})] = list[i]

\* res is the elements of list that satisfy P, in the order of list
IsFiltered(res, list, P(_)) == Selected(res, list, {i \in DOMAIN list : P(list[i])})

\* s split on the separator character
RECURSIVE Split(_, _)
Split(s, sep) ==
    LET at == IndexOf(s, sep, 1)
    IN  IF at > Len(s) THEN <<s>>
        ELSE <<SubSeq(s, 1, at - 1)>> \o Split(SubSeq(s, at + 1, Len(s)), sep)

Constructed == pc = "idle"

\* C1: once add has succeeded for a key, the next add with that key raises the
\* conflict error and leaves participants.tsv as it is.
C1_SecondAddConflicts ==
    (Constructed /\ lastOp.op = "add" /\ error = "none") =>
        LET second == add(disk, participants, files, lastOp.key, lastOp.setup,
                          rjust, "none")
        IN  second.error = "ValueError" /\ second.disk.tsv = disk.tsv

\* C2: _create_metadata raises exactly when some group is a lone row whose run
\* is not 1 or has several rows that are not all identical apart from run;
\* otherwise the table is the first row of each group, in entry order.
C2_Inconsistent(table) ==
    \E key \in {grouping_key(table[i]) : i \in DOMAIN table} :
        LET group == GroupRows(table, key)
        IN  \/ Cardinality(group) = 1 /\ \E i \in group : table[i].run # 1
            \/ /\ Cardinality(group) > 1
               /\ \E i, j \in group : NonRun(table[i]) # NonRun(table[j])

C2_FirstOfGroup(table, i) ==
    \A j \in 1..(i - 1) : grouping_key(table[j]) # grouping_key(table[i])

C2_RaisesIffInconsistent ==
    ("files" \in assigned /\ pc \in {"idle", "failed"}) =>
        LET table == [i \in DOMAIN files |-> files[i].metadata]
        IN  /\ (error = "ValueError") <=> C2_Inconsistent(table)
            /\ error = "none" =>
                 Selected(metadata, table,
                          {i \in DOMAIN table : C2_FirstOfGroup(table, i)})

\* C3: a call in which _create_metadata raises leaves self.metadata as it was
\* before the call.
C3_NoPartialMetadata ==
    [][error' = "ValueError" =>
          /\ metadata' = metadata
          /\ ("metadata" \in assigned') = ("metadata" \in assigned)]_vars

\* C4: an add in which a step after the conflict check raises leaves the
\* files of the dataset, participants.tsv and the sidecars as they were.
Persisted(d) == [fs |-> d.fs, tsv |-> d.tsv, sidecars |-> d.sidecars]

C4_FailedAddRestores ==
    [][(lastOp'.op = "add" /\ error' = "OSError") =>
          Persisted(disk') = Persisted(disk)]_vars

\* C5: an acquisition given as the int n is treated as the string of n
\* zero-padded to self.rjust: by the subset, by get, by get_derivatives and by
\* to_df, which selects the rows of acquisition n.
C5_IntLikePadded ==
    Constructed =>
        \A n \in 0..MaxAcq :
            LET asInt == [Q0 EXCEPT !.acq = IntCell(n)]
                asStr == [Q0 EXCEPT !.acq = StrCell(int2str(n, rjust))]
            IN  /\ AcqSubset(IntArg(n), rjust) = <<int2str(n, rjust)>>
                /\ get(files, asInt, rjust) = get(files, asStr, rjust)
                /\ \A d \in {"ica", "psd"} :
                     get_derivatives(derivative_files, d, asInt, rjust)
                     = get_derivatives(derivative_files, d, asStr, rjust)
                /\ to_df(metadata, asInt) = to_df(metadata, asStr)
                /\ IsFiltered(to_df(metadata, asInt), metadata,
                              LAMBDA row : row.acq.n = n)

\* C6: each of the sub, ses and task filters becomes a non-empty list of
\* alternatives: the wildcard when omitted, the string split on its commas,
\* the list itself; the pattern of 'a,b' matches what the pattern of
\* ['a','b'] matches.
C6_Alternatives(a) ==
    IF a.kind = "none" THEN <<".+">>
    ELSE IF a.kind = "str" THEN Split(a.s, ",")
    ELSE a.l

C6_ListForm(a) ==
    [k \in DOMAIN a |->
        IF a[k].kind = "str" THEN ListArg(Split(a[k].s, ",")) ELSE a[k]]

C6_FiltersNormalized ==
    pc # "new" =>
        /\ \A k \in {"sub", "ses", "task"} :
             subset[k] = C6_Alternatives(args[k]) /\ Len(subset[k]) >= 1
        /\ \A i \in DOMAIN disk.raw :
             re_match(path_join(Root, subset_regex_pattern), PathOf(disk.raw[i]))
             = re_match(path_join(Root,
                            BuildPattern(BuildSubset(C6_ListForm(args), rjust))),
                        PathOf(disk.raw[i]))

\* C7: without a derivatives folder, get_derivatives and reload_derivatives
\* return normally and leave the lists alone; get_derivatives returns the
\* entries of the list loaded before that satisfy the query, none if no list
\* was loaded.
C7_Loaded == IF "derivative_files" \in assigned THEN derivative_files ELSE <<>>

C7_NoDerivativesFolder ==
    [][(Constructed /\ ~disk.hasDeriv /\ disk' = disk
        /\ lastOp'.op \in {"get_derivatives", "reload_derivatives"}) =>
          /\ error' = "none"
          /\ derivative_files' = derivative_files
          /\ files' = files
          /\ metadata' = metadata
          /\ lastOp'.op = "get_derivatives" =>
               result' = get_derivatives(C7_Loaded, lastOp'.derivative,
                                         lastOp'.q, rjust)]_vars

\* C8: get returns, in the order of self.files, exactly the entries whose path
\* holds the token of every given field, holds the given suffix before a dot,
\* ends with the given extension, and whose derivative tag is absent.
C8_Given(e, field, value) ==
    value = "None" \/ Contains(e.path, field \o "-" \o value)

C8_Matches(e, q, width) ==
    /\ C8_Given(e, "sub", q.sub)
    /\ C8_Given(e, "task", q.task)
    /\ C8_Given(e, "ses", q.ses)
    /\ q.acq # NoneCell =>
         Contains(e.path, "acq-" \o (IF q.acq.isint THEN int2str(q.acq.n, width)
                                     ELSE rjust0(q.acq.s, width)))
    /\ q.run # NoneCell =>
         Contains(e.path, "run-" \o (IF q.run.isint THEN int2str(q.run.n, width)
                                     ELSE rjust0(q.run.s, width)))
    /\ q.suffix # "None" => Contains(e.path, "_" \o q.suffix \o ".")
    /\ q.ext # "None" => EndsWith(e.path, "." \o q.ext)
    /\ e.derivative = "None"

C8_GetIsExactFilter ==
    (Constructed /\ lastOp.op = "get") =>
        IsFiltered(result, files, LAMBDA e : C8_Matches(e, lastOp.q, rjust))

\* a get by subject that keeps some entries and leaves others out
C8_Witness ==
    /\ Constructed
    /\ lastOp.op = "get"
    /\ lastOp.q.sub # "None"
    /\ Len(result) > 0
    /\ Len(result) < Len(files)

\* C9: a list is published only when every load of its batch has succeeded,
\* and holds the entry of the i-th discovered path at i, in whatever order the
\* workers finished; the metadata is made only from a published list.
C9_Allowed(f) ==
    args.derivatives.kind = "none" \/ f.derivative \in SeqRange(args.derivatives.l)

C9_State ==
    /\ pc = "read_files" => "files" \notin assigned
    /\ "files" \in assigned => PathsOf(files) = DiscoveredPaths(disk.raw)
    /\ "metadata" \in assigned => "files" \in assigned
    /\ pc = "read_derivatives" =>
         [i \in DOMAIN tasks |-> PathOf(tasks[i][1])]
         = DiscoveredPaths(SelectSeq(disk.derivs, C9_Allowed))

C9_Step ==
    /\ (files' # files \/ "files" \in assigned' \ assigned) =>
         pc = "read_files" /\ AllLoaded
    /\ (derivative_files' # derivative_files
        \/ "derivative_files" \in assigned' \ assigned) =>
         /\ pc = "read_derivatives" /\ AllLoaded
         /\ PathsOf(derivative_files')
            = [i \in DOMAIN tasks |-> PathOf(tasks[i][1])]

C9_PublishedInDiscoveryOrder == [][C9_Step]_vars /\ []C9_State

\* two loads that finished in the reverse of their order, before the join
C9_Witness ==
    /\ pc = "read_files"
    /\ AllLoaded
    /\ Len(tasks) >= 2
    /\ finished[1] > finished[2]

\* C10: when a load of a batch has failed, the call that issued the batch
\* ends by raising, with the lists and the metadata as they were.
C10_FailedLoadFailsCall ==
    [][(Loading /\ pc' # pc /\ \E i \in DOMAIN status : status[i] = "fail") =>
          /\ error' = "LoadError"
          /\ pc' = (IF caller = "init" THEN "failed" ELSE "idle")
          /\ files' = files
          /\ derivative_files' = derivative_files
          /\ metadata' = metadata
          /\ assigned' = assigned]_vars

\* a reload that raised for a failed load, on a catalog that has derivatives
C10_Witness ==
    /\ Constructed
    /\ lastOp.op = "reload_derivatives"
    /\ error = "LoadError"
    /\ Len(derivative_files) > 0

====
